---- MODULE Spec2Model ----
(***************************************************************************)
(* lines2anki: the batch importer do_import and the SettingsDialog of      *)
(* src/lines2anki/__init__.py.                                             *)
(*                                                                         *)
(* Text is a sequence of one-character (or one-token) strings, so that     *)
(* concatenation is \o and '' is << >>.  A file name is <<root, ext>>,     *)
(* which is what os.path.splitext returns and what root + ext rebuilds.    *)
(***************************************************************************)
EXTENDS Integers, Sequences, FiniteSets, TLC

VARIABLES
    \* ---- do_import ----
    ok, prov, deck_name, model_name, field_map, tags,
    file_names, audio_files, std_image_files, sub_files,
    is_import_failed, card_count, p,
    pc, k, i, j, now,
    workdir, media, notes, report,
    \* ---- re.sub on a text (line 152) ----
    text, once, twice, spc,
    \* ---- SettingsDialog, settings.json and the host it reads ----
    doc, dirs, decks, models, flds,
    dstate, self, grid, touched, fresh, edits, sessions, changes

importVars == <<ok, prov, deck_name, model_name, field_map, tags,
                file_names, audio_files, std_image_files, sub_files,
                is_import_failed, card_count, p, pc, k, i, j, now,
                workdir, media, notes, report>>
stripVars == <<text, once, twice, spc>>
dlgVars == <<doc, dirs, decks, models, flds,
             dstate, self, grid, touched, fresh, edits, sessions, changes>>
vars == <<importVars, stripVars, dlgVars>>

----------------------------------------------------------------------------
(* Bounds *)
MaxFiles == 3
MaxClock == 1
MaxChunks == 3
MaxSessions == 2
MaxEdits == 3
MaxChanges == 1

----------------------------------------------------------------------------
(* Sequences helpers *)
Range(s) == {s[n] : n \in DOMAIN s}

RECURSIVE Concat(_)
Concat(ss) == IF ss = << >> THEN << >> ELSE Head(ss) \o Concat(Tail(ss))

\* list.index(x): the first position holding x, 0 when list.index raises ValueError
IndexOf(s, x) ==
    IF \E n \in DOMAIN s : s[n] = x
    THEN CHOOSE n \in DOMAIN s : s[n] = x /\ \A m \in 1..(n - 1) : s[m] # x
    ELSE 0

----------------------------------------------------------------------------
(* Timestamp stripping: re.sub(r'\[[0-9]+:[0-9]+:[0-9]+\]', '', text)      *)
Digits == {"0", "1", "2", "3", "4", "5", "6", "7", "8", "9"}

\* [0-9]+ is greedy: the last index of the run of digits starting at n
\* (n - 1 when s[n] is no digit)
RECURSIVE DigitsEnd(_, _)
DigitsEnd(s, n) ==
    IF n <= Len(s) /\ s[n] \in Digits THEN DigitsEnd(s, n + 1) ELSE n - 1

CharAt(s, n) == IF n \in 1..Len(s) THEN s[n] ELSE "EOF"

\* The index of the last character of a match of the pattern starting at n,
\* 0 when the pattern does not match there.
MatchEnd(s, n) ==
    LET d1 == DigitsEnd(s, n + 1)
        d2 == DigitsEnd(s, d1 + 2)
        d3 == DigitsEnd(s, d2 + 2)
    IN  IF /\ CharAt(s, n) = "["
           /\ d1 >= n + 1  /\ CharAt(s, d1 + 1) = ":"
           /\ d2 >= d1 + 2 /\ CharAt(s, d2 + 1) = ":"
           /\ d3 >= d2 + 2 /\ CharAt(s, d3 + 1) = "]"
        THEN d3 + 1
        ELSE 0

\* re.sub scans left to right, replacing each non-overlapping match by ''
RECURSIVE SubFrom(_, _)
SubFrom(s, n) ==
    IF n > Len(s) THEN << >>
    ELSE IF MatchEnd(s, n) > 0 THEN SubFrom(s, MatchEnd(s, n) + 1)
    ELSE <<s[n]>> \o SubFrom(s, n + 1)

\* a plausible slip: re.sub(..., count=1), only the first match is removed
SubFirstOnly(s) ==
    LET starts == {n \in 1..Len(s) : MatchEnd(s, n) > 0}
        f == CHOOSE n \in starts : \A m \in starts : n <= m
    IN  IF starts = {} THEN s
        ELSE SubSeq(s, 1, f - 1) \o SubSeq(s, MatchEnd(s, f) + 1, Len(s))

StripTimestamps(s) == SubFrom(s, 1)

\* the same removal, said without scanning: positions a..b of s spell
\* "[" digits ":" digits ":" digits "]"
IsToken(s, a, b) ==
    /\ a \in 1..Len(s) /\ b \in 1..Len(s)
    /\ s[a] = "[" /\ s[b] = "]"
    /\ \E c1 \in (a + 2)..(b - 4) : \E c2 \in (c1 + 2)..(b - 2) :
          /\ s[c1] = ":" /\ s[c2] = ":"
          /\ \A m \in ((a + 1)..(b - 1)) \ {c1, c2} : s[m] \in Digits

HasToken(s) == \E a \in 1..Len(s) : \E b \in 1..Len(s) : IsToken(s, a, b)

InToken(s, n) == \E a \in 1..n : \E b \in n..Len(s) : IsToken(s, a, b)

RECURSIVE KeepFrom(_, _)
KeepFrom(s, n) ==
    IF n > Len(s) THEN << >>
    ELSE (IF InToken(s, n) THEN << >> ELSE <<s[n]>>) \o KeepFrom(s, n + 1)

WithoutTokens(s) == KeepFrom(s, 1)

----------------------------------------------------------------------------
(* The texts the substitution is tried on: up to MaxChunks pieces, among    *)
(* them a whole timestamp and the two halves of one.                       *)
Chunks ==
    { <<"[">>, <<"]">>, <<":">>, <<"7">>, <<"H">>,
      <<"[", "0", "0", ":", "0", ":", "1", "]">>,
      <<"[", "1", ":", "2">>,
      <<":", "3", "]">> }

Texts == {Concat(cs) : cs \in UNION {[1..n -> Chunks] : n \in 0..MaxChunks}}

----------------------------------------------------------------------------
(* Module constants, lines 47-66 *)
AUDIO_TYPES == {<<"m", "p", "3">>, <<"w", "a", "v">>, <<"o", "g", "g">>}
IMAGE_TYPES == {<<"j", "p", "g">>, <<"p", "n", "g">>, <<"g", "i", "f">>}
SUB_TYPES == {<<"l", "r", "c">>}

FILL_NOTHING == ""
FILL_FILENAME == "File Name"
FILL_PROV == "Provenance"
FILL_AUDIO == "Audio"
FILL_LINE == "Subtitle"
FILL_IMAGE == "Random Image"
FILLING_OPTIONS ==
    <<FILL_NOTHING, FILL_FILENAME, FILL_PROV, FILL_AUDIO, FILL_LINE, FILL_IMAGE>>

\* Python's list[n]: a negative n counts from the end
PyIndex(list, n) == IF n >= 0 THEN list[n + 1] ELSE list[Len(list) + n + 1]

\* what a combo box's currentIndex() can be: no current item (-1) or an item
ComboIndexes == (0 - 1)..(Len(FILLING_OPTIONS) - 1)

----------------------------------------------------------------------------
(* The host: note types and their fields (mw.col.models) *)
Models == {"Basic", "Cloze"}
Flds(m) == IF m = "Basic" THEN <<"Front", "Back">> ELSE <<"Text">>
FieldNames(m) == Range(Flds(m))

----------------------------------------------------------------------------
(* Files of the source directory *)
Universe ==
    { <<"a", ".", "m", "p", "3">>, <<"b", ".", "M", "P", "3">>,
      <<"a", ".", "l", "r", "c">>,
      <<"c", ".", "j", "p", "g">>, <<"d", ".", "j", "p", "g">>,
      <<"n", ".", "t", "x", "t">> }

\* os.listdir: the entries in an arbitrary order, each once
Listings ==
    {l \in UNION {[1..n -> Universe] : n \in 0..MaxFiles} :
        \A a \in DOMAIN l : \A b \in DOMAIN l : a # b => l[a] # l[b]}

\* os.path.splitext: split at the last dot, unless the name has none or
\* only leading ones
LastDot(f) ==
    LET dots == {n \in DOMAIN f : f[n] = "."}
    IN  IF dots = {} THEN 0 ELSE CHOOSE n \in dots : \A m \in dots : m <= n

SplitExt(f) ==
    LET d == LastDot(f)
    IN  IF d = 0 \/ (\A n \in 1..(d - 1) : f[n] = ".")
        THEN <<f, << >> >>
        ELSE <<SubSeq(f, 1, d - 1), SubSeq(f, d, Len(f))>>

\* str.lower on the letters the file names use
LowerChar(c) ==
    CASE c = "L" -> "l" [] c = "R" -> "r" [] c = "C" -> "c"
      [] c = "M" -> "m" [] c = "P" -> "p" [] c = "J" -> "j"
      [] c = "G" -> "g" [] OTHER -> c

Lower(s) == [n \in DOMAIN s |-> LowerChar(s[n])]

\* ext[1:].lower()
ExtKey(ext) == IF ext = << >> THEN << >> ELSE Lower(Tail(ext))

\* lines 117-130: the branch of the classification a file name takes
Classify(f) ==
    LET _ext == ExtKey(SplitExt(f)[2])
    IN  IF _ext \in AUDIO_TYPES THEN "audio"
        ELSE IF _ext \in SUB_TYPES THEN "sub"
        ELSE IF _ext \in IMAGE_TYPES THEN "image"
        ELSE "other"

\* the same, worked out once for every file name of the universe
RoleOf == [f \in Universe |-> Classify(f)]
Parts == [f \in Universe |-> SplitExt(f)]

IsAudio(f) == RoleOf[f] = "audio"
IsSub(f) == RoleOf[f] = "sub"
IsImage(f) == RoleOf[f] = "image"

\* prov.replace(' ', '.')
StdPrefix(pr) == [n \in DOMAIN pr |-> IF pr[n] = " " THEN "." ELSE pr[n]]

\* time.time(): the clock does not run backwards and may not have advanced
\* since the last reading
Readings(t) == {r \in t..MaxClock : r <= t + 1}

\* line 125
ImageStdName(prefix, t, ext) == prefix \o <<".image-", ToString(t)>> \o ext

\* line 136
AudioStdRoot(prefix, t, n) ==
    prefix \o <<".audio-", ToString(t), "(", ToString(n + 1), ")">>

\* the content of a subtitle file: code units, "BOM" the byte order mark,
\* "BAD" a byte that is no UTF-8
RawContents ==
    { <<"[", "0", "0", ":", "0", ":", "1", "]", "H", "i">>,
      <<"BOM", "[", "0", ":", "0", ":", "1", "]", "H", "i">>,
      <<"H", "i", "[", "1", ":", "2", ":", "3", "]", "!">>,
      <<"H", "BAD">> }

Decodable(raw) == "BAD" \notin Range(raw)

\* encoding='utf-8-sig': one leading byte order mark is dropped
DecodeSig(raw) == IF raw # << >> /\ raw[1] = "BOM" THEN Tail(raw) ELSE raw

\* a slip: encoding='utf-8', which keeps the byte order mark
ReadLineNoSig(raw) ==
    IF Decodable(raw) THEN StripTimestamps(raw) ELSE << >>

\* lines 147-157: the text of the subtitle; '' when the read raises a
\* ValueError (UnicodeDecodeError is one)
ReadLine(raw) ==
    IF Decodable(raw) THEN StripTimestamps(DecodeSig(raw)) ELSE << >>

\* line 149: the position in sub_files of the first entry with this root,
\* 0 when index() raises ValueError
FindSub(subs, root) == IndexOf([n \in DOMAIN subs |-> subs[n][1]], root)

\* a slip: the image reference written without the test of line 174
FieldDataNoGuard(option, std_root, pr, line, image) ==
    CASE option = FILL_FILENAME -> std_root
      [] option = FILL_PROV -> pr
      [] option = FILL_AUDIO -> <<"[sound:">> \o std_root \o <<"]">>
      [] option = FILL_LINE -> line
      [] option = FILL_IMAGE -> <<"<img src=\"">> \o image \o <<"\">">>
      [] OTHER -> << >>

\* lines 161-177: the data of one field; image is the random choice, << >>
\* when there is no image to choose
FieldData(option, std_root, pr, line, image) ==
    CASE option = FILL_FILENAME -> std_root
      [] option = FILL_PROV -> pr
      [] option = FILL_AUDIO -> <<"[sound:">> \o std_root \o <<"]">>
      [] option = FILL_LINE -> line
      [] option = FILL_IMAGE ->
            IF image # << >> THEN <<"<img src=\"">> \o image \o <<"\">">>
            ELSE << >>
      [] OTHER -> << >>

\* the option a stored index stands for, line 162
OptionOf(idx) == PyIndex(FILLING_OPTIONS, idx)

ImageFields(fm) == {f \in DOMAIN fm : OptionOf(fm[f]) = FILL_IMAGE}

----------------------------------------------------------------------------
(* SettingsDialog, lines 234-451.  A path is the sequence of its           *)
(* components, '' is << >>; settings.json is the dictionary json.load      *)
(* returns, the empty one when the file is not there.                       *)
Home == <<"home", "u">>
AllDirs == {Home, <<"tv", "B B">>}
AllDecks == {"Default", "TV"}
CurrentDeck == "Default"
CurrentModel == "Basic"
FldsChoices(m) ==
    IF m = "Basic" THEN {<<"Front", "Back">>, <<"Front">>} ELSE {<<"Text">>}
TypedProvs == {"", "S1"}
TypedTags == {"", "tv show"}

NoDoc == [x \in {} |-> ""]
NoMap == [x \in {} |-> 0]

\* dict.get(key, default)
Get(d, key, default) == IF key \in DOMAIN d THEN d[key] ELSE default

\* os.path.basename
Basename(path) == path[Len(path)]

\* QComboBox.setCurrentIndex followed by currentIndex(): an index that is
\* no item leaves the box without a current item, which reads as -1
SetCurrentIndex(idx) ==
    IF idx \in 0..(Len(FILLING_OPTIONS) - 1) THEN idx ELSE 0 - 1

\* create_field_grid, lines 343-367: one row per field of the note type
FieldGrid(m, fm) ==
    IF m = "" THEN << >>
    ELSE [r \in DOMAIN flds[m] |->
            [lbl |-> flds[m][r],
             cmb |-> SetCurrentIndex(Get(fm, flds[m][r], 0 - 1))]]

\* accept, lines 406-412: the mapping read off the rows of the grid
GridMap(g, m) ==
    LET rows == 1..Len(flds[m])
    IN  [f \in {g[r].lbl : r \in rows} |->
            g[CHOOSE r \in rows : g[r].lbl = f /\ \A q \in rows :
                                     g[q].lbl = f => q <= r].cmb]

\* lines 258-260: the directory of the document, the home directory when
\* it is not there
InitialDir(d) ==
    IF Get(d, "dirPath", << >>) \in dirs THEN Get(d, "dirPath", << >>)
    ELSE Home

\* a slip: the deck of the document is not looked at
InitialDeckCurrent(d) == CurrentDeck

\* lines 270-272
InitialDeck(d) ==
    IF Get(d, "deckName", "") \in decks THEN Get(d, "deckName", "")
    ELSE CurrentDeck

\* lines 278-280
InitialModel(d) ==
    IF Get(d, "modelName", "") \in models THEN Get(d, "modelName", "")
    ELSE CurrentModel

DlgIdle ==
    /\ doc = NoDoc /\ dirs = AllDirs /\ decks = AllDecks /\ models = Models
    /\ flds = [m \in Models |-> Flds(m)]
    /\ dstate = "off" /\ grid = << >> /\ touched = {} /\ edits = 0
    /\ fresh = FALSE
    /\ sessions = 0 /\ changes = 0
    /\ self = [dirPath |-> << >>, prov |-> "", deckName |-> "",
               modelName |-> "", fieldMap |-> NoMap, tags |-> ""]

----------------------------------------------------------------------------
(* do_import, lines 88-205 *)
Provs == {<<"B", " ", "B">>}
Decks == {"Default"}
TagStrings == {"tv show"}

std_prefix == StdPrefix(prov)

StripIdle == text = << >> /\ once = << >> /\ twice = << >> /\ spc = "off"

\* lines 93-113: the dialog was cancelled and do_import returned at once
InitCancelled ==
    /\ ok = FALSE /\ pc = "returned"
    /\ prov = << >> /\ deck_name = "" /\ model_name = "" /\ tags = ""
    /\ field_map = << >> /\ file_names = << >>

\* lines 93-113: the dialog was confirmed, the directory is listed
InitConfirmed ==
    /\ ok = TRUE /\ pc = "classify"
    /\ prov \in Provs /\ deck_name \in Decks /\ tags \in TagStrings
    /\ model_name \in Models
    /\ field_map \in [FieldNames(model_name) -> ComboIndexes]
    /\ file_names \in Listings

Init ==
    /\ InitCancelled \/ InitConfirmed
    /\ audio_files = << >> /\ std_image_files = << >> /\ sub_files = << >>
    /\ is_import_failed = FALSE /\ card_count = 0 /\ p = 0
    /\ k = 1 /\ i = 1 /\ j = 1 /\ now = 0
    /\ workdir = {} /\ media = {} /\ notes = << >> /\ report = << >>
    /\ StripIdle /\ DlgIdle

Config == <<ok, prov, deck_name, model_name, field_map, tags, file_names>>

\* lines 116-132, one file of the listing
ClassifyAudio ==
    /\ pc = "classify" /\ k <= Len(file_names) /\ IsAudio(file_names[k])
    /\ audio_files' = Append(audio_files, Parts[file_names[k]])
    /\ k' = k + 1
    /\ UNCHANGED <<Config, std_image_files, sub_files, is_import_failed,
                   card_count, p, pc, i, j, now, workdir, media, notes,
                   report, stripVars, dlgVars>>

ClassifySub ==
    /\ pc = "classify" /\ k <= Len(file_names) /\ IsSub(file_names[k])
    /\ sub_files' = Append(sub_files, Parts[file_names[k]])
    /\ k' = k + 1
    /\ UNCHANGED <<Config, audio_files, std_image_files, is_import_failed,
                   card_count, p, pc, i, j, now, workdir, media, notes,
                   report, stripVars, dlgVars>>

ClassifyImage ==
    /\ pc = "classify" /\ k <= Len(file_names) /\ IsImage(file_names[k])
    /\ \E t \in Readings(now) :
          LET std_name == ImageStdName(std_prefix, t, Parts[file_names[k]][2])
          IN  /\ now' = t
              /\ workdir' = workdir \cup {std_name}
              /\ std_image_files' = Append(std_image_files, std_name)
    /\ p' = p + 1
    /\ k' = k + 1
    /\ UNCHANGED <<Config, audio_files, sub_files, is_import_failed,
                   card_count, pc, i, j, media, notes, report, stripVars, dlgVars>>

ClassifyOther ==
    /\ pc = "classify" /\ k <= Len(file_names)
    /\ RoleOf[file_names[k]] = "other"
    /\ p' = p + 1
    /\ k' = k + 1
    /\ UNCHANGED <<Config, audio_files, std_image_files, sub_files,
                   is_import_failed, card_count, pc, i, j, now, workdir,
                   media, notes, report, stripVars, dlgVars>>

ClassifyDone ==
    /\ pc = "classify" /\ k > Len(file_names)
    /\ pc' = "notes"
    /\ UNCHANGED <<Config, audio_files, std_image_files, sub_files,
                   is_import_failed, card_count, p, k, i, j, now, workdir,
                   media, notes, report, stripVars, dlgVars>>

\* lines 185-190: the loop goes on after a note that generated cards and
\* breaks after one that did not
\* a slip: no break after the note that generated no cards
PcNoBreak(added) == "notes"

PcAfterNote(added) == IF added THEN "notes" ELSE "cleanup"

\* a slip: the count is raised before addNote is asked
CardCountEager(count, added) == count + 1

CardCountAfter(count, added) == IF added THEN count + 1 ELSE count

\* lines 135-193, one audio file: its import, its note, addNote
NoteStep ==
    /\ pc = "notes" /\ i <= Len(audio_files)
    /\ LET root == audio_files[i][1]
           ext == audio_files[i][2]
           s == FindSub(sub_files, root)
           images == ImageFields(field_map)
       IN  \E t \in Readings(now) : \E added \in BOOLEAN :
           \E raw \in (IF s = 0 THEN {<< >>} ELSE RawContents) :
           \E pick \in [images -> IF std_image_files = << >> THEN {0}
                                  ELSE DOMAIN std_image_files] :
             LET std_root == AudioStdRoot(std_prefix, t, i - 1)
                 std_name == std_root \o ext
                 line == IF s = 0 THEN << >> ELSE ReadLine(raw)
                 image(f) == IF f \in images /\ pick[f] # 0
                             THEN std_image_files[pick[f]] ELSE << >>
                 fields == [f \in DOMAIN field_map |->
                              IF OptionOf(field_map[f]) = FILL_NOTHING
                              THEN << >>
                              ELSE FieldData(OptionOf(field_map[f]), std_root,
                                             prov, line, image(f))]
                 note == [src |-> root \o ext, std_name |-> std_name,
                          sub |-> IF s = 0 THEN << >>
                                  ELSE root \o sub_files[s][2],
                          raw |-> raw, line |-> line, fields |-> fields,
                          tags |-> <<tags>>, added |-> added]
             IN  /\ now' = t
                 /\ media' = (media \cup {std_name})
                               \cup ({image(f) : f \in images} \ {<< >>})
                 /\ notes' = Append(notes, note)
                 /\ is_import_failed' = (is_import_failed \/ ~added)
                 /\ card_count' = CardCountAfter(card_count, added)
                 /\ p' = p + (IF s # 0 /\ Decodable(raw) THEN 1 ELSE 0)
                           + (IF added THEN 1 ELSE 0)
                 /\ i' = IF added THEN i + 1 ELSE i
                 /\ pc' = PcAfterNote(added)
    /\ UNCHANGED <<Config, audio_files, std_image_files, sub_files, k, j,
                   workdir, report, stripVars, dlgVars>>

NotesDone ==
    /\ pc = "notes" /\ i > Len(audio_files)
    /\ pc' = "cleanup"
    /\ UNCHANGED <<Config, audio_files, std_image_files, sub_files,
                   is_import_failed, card_count, p, k, i, j, now, workdir,
                   media, notes, report, stripVars, dlgVars>>

\* lines 196-197, one os.remove
RemoveImage ==
    /\ pc = "cleanup" /\ j <= Len(std_image_files)
    /\ std_image_files[j] \in workdir
    /\ workdir' = workdir \ {std_image_files[j]}
    /\ j' = j + 1
    /\ UNCHANGED <<Config, audio_files, std_image_files, sub_files,
                   is_import_failed, card_count, p, pc, k, i, now, media,
                   notes, report, stripVars, dlgVars>>

\* os.remove of a file that is no longer there raises FileNotFoundError,
\* which nothing catches
RemoveImageMissing ==
    /\ pc = "cleanup" /\ j <= Len(std_image_files)
    /\ std_image_files[j] \notin workdir
    /\ pc' = "raised"
    /\ UNCHANGED <<Config, audio_files, std_image_files, sub_files,
                   is_import_failed, card_count, p, k, i, j, now, workdir,
                   media, notes, report, stripVars, dlgVars>>

\* lines 200-205
Finish ==
    /\ pc = "cleanup" /\ j > Len(std_image_files)
    /\ pc' = "done"
    /\ report' = IF is_import_failed THEN <<"Lines Import Failure">>
                 ELSE <<"Lines Import Complete", card_count, deck_name>>
    /\ UNCHANGED <<Config, audio_files, std_image_files, sub_files,
                   is_import_failed, card_count, p, k, i, j, now, workdir,
                   media, notes, stripVars, dlgVars>>

Next ==
    \/ ClassifyAudio \/ ClassifySub \/ ClassifyImage \/ ClassifyOther
    \/ ClassifyDone \/ NoteStep \/ NotesDone
    \/ RemoveImage \/ RemoveImageMissing \/ Finish

Spec == Init /\ [][Next]_vars

----------------------------------------------------------------------------
(* The substitution of line 152 on its own *)
ImportIdle ==
    /\ InitCancelled
    /\ audio_files = << >> /\ std_image_files = << >> /\ sub_files = << >>
    /\ is_import_failed = FALSE /\ card_count = 0 /\ p = 0
    /\ k = 1 /\ i = 1 /\ j = 1 /\ now = 0
    /\ workdir = {} /\ media = {} /\ notes = << >> /\ report = << >>

InitStrip ==
    /\ ImportIdle /\ DlgIdle
    /\ text \in Texts /\ once = << >> /\ twice = << >> /\ spc = "input"

StripOnce ==
    /\ spc = "input"
    /\ once' = StripTimestamps(text)
    /\ spc' = "once"
    /\ UNCHANGED <<importVars, dlgVars, text, twice>>

StripTwice ==
    /\ spc = "once"
    /\ twice' = StripTimestamps(once)
    /\ spc' = "twice"
    /\ UNCHANGED <<importVars, dlgVars, text, once>>

NextStrip == StripOnce \/ StripTwice

SpecStrip == InitStrip /\ [][NextStrip]_vars

----------------------------------------------------------------------------
(* Properties of do_import *)
AudioInListing == SelectSeq(file_names, IsAudio)
ImagesInListing == SelectSeq(file_names, IsImage)
Failing == {n \in DOMAIN notes : ~notes[n].added}
Ended == pc \in {"cleanup", "done", "raised"}
SoundRef(name) == <<"[sound:">> \o name \o <<"]">>
ImgRef(name) == <<"<img src=\"">> \o name \o <<"\">">>

\* what a subtitle file's content reads as: without a leading byte order
\* mark and without the timestamps
Cleaned == [raw \in RawContents |-> WithoutTokens(DecodeSig(raw))]

\* C1: a note is attempted for each audio file, in the order of the
\* directory listing; a note that generated no cards is the last one
\* attempted, and the audio files in media storage are those of the notes
\* attempted; with no such note, the run ends with as many notes as audio
\* files.
C1_NotePerAudioUntilFailure ==
    /\ Len(notes) <= Len(AudioInListing)
    /\ \A n \in DOMAIN notes : notes[n].src = AudioInListing[n]
    /\ \A n \in Failing : n = Len(notes)
    /\ Ended => (Failing # {} \/ Len(notes) = Len(AudioInListing))
    /\ {m \in media : ".audio-" \in Range(m)}
          = {notes[n].std_name : n \in DOMAIN notes}
    /\ Cardinality({notes[n].std_name : n \in DOMAIN notes}) = Len(notes)

C1_Witness ==
    /\ pc = "done" /\ Len(AudioInListing) = 2
    /\ Len(notes) = 1 /\ ~notes[1].added
    /\ Cardinality({m \in media : ".audio-" \in Range(m)}) = 1

\* C2: the count is the number of notes addNote accepted, the failure flag
\* is set exactly when some addNote reported no cards, the final dialog
\* says so, and a first note that fails leaves the count at 0.
C2_CountAndFlag ==
    /\ card_count = Cardinality(DOMAIN notes \ Failing)
    /\ is_import_failed <=> Failing # {}
    /\ (1 \in Failing) => (is_import_failed /\ card_count = 0)
    /\ pc = "done" =>
          report = IF Failing # {} THEN <<"Lines Import Failure">>
                   ELSE <<"Lines Import Complete",
                          Cardinality(DOMAIN notes \ Failing), deck_name>>

C2_Witness ==
    /\ pc = "done" /\ is_import_failed /\ card_count = 1 /\ Len(notes) = 2

C5_ImagesImported ==
    pc = "done" =>
        \A n \in DOMAIN std_image_files :
            /\ std_image_files[n] \in media
            /\ std_image_files[n] \notin workdir

\* C6: a field mapped to the audio reference holds a sound reference to a
\* file of media storage, the one the note's audio was imported as.
C6_AudioReferenceResolves ==
    \A n \in DOMAIN notes : \A f \in DOMAIN field_map :
        OptionOf(field_map[f]) = FILL_AUDIO =>
            /\ notes[n].fields[f] = SoundRef(notes[n].std_name)
            /\ notes[n].std_name \in media

\* C8: a field mapped to the random image is empty in every note when the
\* directory has no image, and otherwise holds an image reference to one of
\* the names generated in this run.
C8_RandomImage ==
    \A n \in DOMAIN notes : \A f \in DOMAIN field_map :
        OptionOf(field_map[f]) = FILL_IMAGE =>
            IF ImagesInListing = << >>
            THEN notes[n].fields[f] = << >>
            ELSE /\ notes[n].fields[f] # << >>
                 /\ \E m \in Range(std_image_files) :
                       notes[n].fields[f] = ImgRef(m)
                 /\ Len(std_image_files) = Len(ImagesInListing)

C8_Witness ==
    /\ Len(notes) = 1 /\ Len(ImagesInListing) = 2
    /\ \E f \in DOMAIN field_map :
          /\ field_map[f] = 5
          /\ notes[1].fields[f] = ImgRef(std_image_files[2])

\* C10: the names generated for the images of one run are pairwise distinct.
C10_ImageNamesDistinct ==
    \A a \in DOMAIN std_image_files : \A b \in DOMAIN std_image_files :
        a # b => std_image_files[a] # std_image_files[b]

----------------------------------------------------------------------------
(* Properties of the substitution *)

\* C4: one pass removes every [digits:digits:digits] of its input and
\* nothing else, and a second pass changes the result exactly when the
\* first pass left a timestamp behind.
C4_StripRemovesTokens ==
    /\ spc \in {"once", "twice"} => once = WithoutTokens(text)
    /\ spc = "twice" => (twice = once <=> ~HasToken(once))

C4_Witness ==
    /\ spc = "twice" /\ HasToken(text) /\ ~HasToken(once)
    /\ once # << >> /\ twice = once

\* C4 as claimed: a second pass never changes the result of the first.
C4_Idempotent ==
    spc = "twice" => (twice = once /\ once = WithoutTokens(text))

----------------------------------------------------------------------------
(* The settings dialog over several sessions, and the host between them *)
InitDlg ==
    /\ ImportIdle /\ StripIdle
    /\ doc = NoDoc /\ dirs = AllDirs /\ decks = AllDecks /\ models = Models
    /\ flds \in {fl \in [Models -> UNION {FldsChoices(m) : m \in Models}] :
                    \A m \in Models : fl[m] \in FldsChoices(m)}
    /\ dstate = "closed" /\ grid = << >> /\ touched = {} /\ edits = 0
    /\ fresh = FALSE /\ sessions = 0 /\ changes = 0
    /\ self = [dirPath |-> << >>, prov |-> "", deckName |-> "",
               modelName |-> "", fieldMap |-> NoMap, tags |-> ""]

Host == <<dirs, decks, models, flds>>

\* __init__, lines 240-298
Open ==
    /\ dstate = "closed" /\ sessions < MaxSessions
    /\ self' = [dirPath |-> InitialDir(doc),
                prov |-> Get(doc, "prov", ""),
                deckName |-> InitialDeck(doc),
                modelName |-> InitialModel(doc),
                fieldMap |-> Get(doc, "fieldMap", NoMap),
                tags |-> Get(doc, "tags", "")]
    /\ grid' = FieldGrid(InitialModel(doc), Get(doc, "fieldMap", NoMap))
    /\ dstate' = "open" /\ fresh' = TRUE
    /\ sessions' = sessions + 1
    /\ UNCHANGED <<importVars, stripVars, Host, doc, touched, edits, changes>>

\* browse_dir, lines 300-312: the user picks a directory or cancels
Browse(path) ==
    IF path = << >> THEN UNCHANGED self
    ELSE self' = [self EXCEPT !.dirPath = path, !.prov = Basename(path)]

BrowseDir ==
    /\ dstate = "open" /\ edits < MaxEdits
    /\ \E path \in dirs \cup {<< >>} : Browse(path)
    /\ fresh' = FALSE /\ edits' = edits + 1
    /\ UNCHANGED <<importVars, stripVars, Host, doc, dstate, grid, touched,
                   sessions, changes>>

\* prov_edited, lines 314-319
ProvEdited ==
    /\ dstate = "open" /\ edits < MaxEdits
    /\ \E x \in TypedProvs : self' = [self EXCEPT !.prov = x]
    /\ fresh' = FALSE /\ edits' = edits + 1
    /\ UNCHANGED <<importVars, stripVars, Host, doc, dstate, grid, touched,
                   sessions, changes>>

\* deck_changed, lines 321-326
DeckChanged ==
    /\ dstate = "open" /\ edits < MaxEdits
    /\ \E d \in decks \ {self.deckName} : self' = [self EXCEPT !.deckName = d]
    /\ fresh' = FALSE /\ edits' = edits + 1
    /\ UNCHANGED <<importVars, stripVars, Host, doc, dstate, grid, touched,
                   sessions, changes>>

\* model_changed, lines 328-334
ModelChanged ==
    /\ dstate = "open" /\ edits < MaxEdits
    /\ \E m \in models \ {self.modelName} :
          /\ self' = [self EXCEPT !.modelName = m]
          /\ grid' = FieldGrid(m, self.fieldMap)
    /\ fresh' = FALSE /\ edits' = edits + 1
    /\ UNCHANGED <<importVars, stripVars, Host, doc, dstate, touched,
                   sessions, changes>>

\* tags_changed, lines 336-341
TagsChanged ==
    /\ dstate = "open" /\ edits < MaxEdits
    /\ \E x \in TypedTags : self' = [self EXCEPT !.tags = x]
    /\ fresh' = FALSE /\ edits' = edits + 1
    /\ UNCHANGED <<importVars, stripVars, Host, doc, dstate, grid, touched,
                   sessions, changes>>

\* the user picks an option in the combo box of one row (lines 360-362
\* make the box; no handler is connected to it)
SelectOption ==
    /\ dstate = "open" /\ edits < MaxEdits
    /\ \E r \in DOMAIN grid : \E idx \in 0..(Len(FILLING_OPTIONS) - 1) :
          /\ idx # grid[r].cmb
          /\ grid' = [grid EXCEPT ![r].cmb = idx]
          /\ touched' = touched \cup {<<self.modelName, grid[r].lbl>>}
    /\ fresh' = FALSE /\ edits' = edits + 1
    /\ UNCHANGED <<importVars, stripVars, Host, doc, dstate, self, sessions, changes>>

\* accept, lines 383-434, the directory is there
Accept ==
    /\ dstate = "open" /\ self.dirPath \in dirs
    /\ LET pr == IF self.prov = "" THEN "Unknown" ELSE self.prov
           dn == IF self.deckName = "" THEN CurrentDeck ELSE self.deckName
           mn == IF self.modelName = "" THEN CurrentModel ELSE self.modelName
           fm == GridMap(grid, mn)
       IN  /\ self' = [self EXCEPT !.prov = pr, !.deckName = dn,
                                   !.modelName = mn, !.fieldMap = fm]
           /\ doc' = [dirPath |-> self.dirPath, prov |-> pr, deckName |-> dn,
                      modelName |-> mn, fieldMap |-> fm, tags |-> self.tags]
    /\ dstate' = "accepted" /\ fresh' = FALSE
    /\ UNCHANGED <<importVars, stripVars, Host, grid, touched, edits,
                   sessions, changes>>

\* accept, lines 388-394, the directory is gone: browse_dir, and the dialog
\* stays open
AcceptDirMissing ==
    /\ dstate = "open" /\ self.dirPath \notin dirs
    /\ \E path \in dirs \cup {<< >>} : Browse(path)
    /\ fresh' = FALSE
    /\ UNCHANGED <<importVars, stripVars, Host, doc, dstate, grid, touched,
                   edits, sessions, changes>>

\* reject (line 247): nothing is written
Reject ==
    /\ dstate = "open"
    /\ dstate' = "rejected" /\ fresh' = FALSE
    /\ UNCHANGED <<importVars, stripVars, Host, doc, self, grid, touched,
                   edits, sessions, changes>>

\* get_result, lines 436-451: do_import takes the result and the dialog
\* object is dropped
NoSelf ==
    [dirPath |-> << >>, prov |-> "", deckName |-> "", modelName |-> "",
     fieldMap |-> NoMap, tags |-> ""]

GetResult ==
    /\ dstate \in {"accepted", "rejected"}
    /\ dstate' = "closed" /\ self' = NoSelf /\ grid' = << >>
    /\ UNCHANGED <<importVars, stripVars, Host, doc, touched, fresh, edits,
                   sessions, changes>>

\* the directory is removed or renamed, at any time (lines 259 and 388
\* test for it)
RemoveDir ==
    /\ changes < MaxChanges /\ changes' = changes + 1
    /\ \E d \in dirs \ {Home} : dirs' = dirs \ {d}
    /\ UNCHANGED <<importVars, stripVars, decks, models, flds, doc, dstate,
                   self, grid, touched, fresh, edits, sessions>>

\* the collection changes while the modal dialog is not up
RemoveDeck ==
    /\ dstate = "closed" /\ changes < MaxChanges /\ changes' = changes + 1
    /\ \E d \in decks \ {CurrentDeck} : decks' = decks \ {d}
    /\ UNCHANGED <<importVars, stripVars, dirs, models, flds, doc, dstate,
                   self, grid, touched, fresh, edits, sessions>>

RemoveModel ==
    /\ dstate = "closed" /\ changes < MaxChanges /\ changes' = changes + 1
    /\ \E m \in models \ {CurrentModel} : models' = models \ {m}
    /\ UNCHANGED <<importVars, stripVars, dirs, decks, flds, doc, dstate,
                   self, grid, touched, fresh, edits, sessions>>

ChangeFlds ==
    /\ dstate = "closed" /\ changes < MaxChanges /\ changes' = changes + 1
    /\ \E m \in models : \E fl \in FldsChoices(m) \ {flds[m]} :
          flds' = [flds EXCEPT ![m] = fl]
    /\ UNCHANGED <<importVars, stripVars, dirs, decks, models, doc, dstate,
                   self, grid, touched, fresh, edits, sessions>>

NextDlg ==
    \/ Open \/ BrowseDir \/ ProvEdited \/ DeckChanged \/ ModelChanged
    \/ TagsChanged \/ SelectOption \/ Accept \/ AcceptDirMissing \/ Reject
    \/ GetResult \/ RemoveDir \/ RemoveDeck \/ RemoveModel \/ ChangeFlds

SpecDlg == InitDlg /\ [][NextDlg]_vars

----------------------------------------------------------------------------
(* Properties of the settings dialog *)

\* C7: on confirmation the mapping has the fields of the selected note type
\* as its keys, every value stands for one of the six options, and a field
\* whose option the user never selected stands for the empty option.
C7_MappingOfConfirmation ==
    dstate = "accepted" =>
        /\ DOMAIN self.fieldMap = Range(flds[self.modelName])
        /\ \A f \in DOMAIN self.fieldMap :
              /\ self.fieldMap[f] \in ComboIndexes
              /\ OptionOf(self.fieldMap[f]) \in Range(FILLING_OPTIONS)
              /\ <<self.modelName, f>> \notin touched =>
                    OptionOf(self.fieldMap[f]) = FILL_NOTHING

\* the dialog shows the values of the document; for the mapping, the
\* choice shown for every field of the document is the one it holds
SameAsDocument ==
    /\ self.dirPath = doc.dirPath /\ self.prov = doc.prov
    /\ self.deckName = doc.deckName /\ self.modelName = doc.modelName
    /\ self.fieldMap = doc.fieldMap /\ self.tags = doc.tags
    /\ \A f \in DOMAIN doc.fieldMap :
          /\ f \in DOMAIN GridMap(grid, self.modelName)
          /\ GridMap(grid, self.modelName)[f] = doc.fieldMap[f]

\* C9 as claimed: a dialog opened on a confirmed document starts from the
\* document's values when its deck, note type and fields are in the host.
C9_RoundTrip ==
    (/\ dstate = "open" /\ fresh /\ doc # NoDoc
     /\ doc.deckName \in decks /\ doc.modelName \in models
     /\ DOMAIN doc.fieldMap \subseteq Range(flds[doc.modelName]))
        => SameAsDocument

\* C9: the same, when also the directory of the document is still there.
C9_RoundTripWhileDirExists ==
    (/\ dstate = "open" /\ fresh /\ doc # NoDoc
     /\ doc.dirPath \in dirs
     /\ doc.deckName \in decks /\ doc.modelName \in models
     /\ DOMAIN doc.fieldMap \subseteq Range(flds[doc.modelName]))
        => SameAsDocument

C9_Witness ==
    /\ dstate = "open" /\ fresh /\ doc # NoDoc /\ sessions = 2
    /\ self.dirPath = <<"tv", "B B">> /\ self.prov = "B B"
    /\ self.deckName = "TV" /\ SameAsDocument
    /\ \E r \in DOMAIN grid : grid[r].cmb = 4

====
